---- MODULE Spec2Model ----
(***************************************************************************)
(* Model of articular.document.Document: construction of the JSON-LD       *)
(* document (context de-duplication, id/@base/@vocab placement, merge of   *)
(* the content) and the `framed` property.                                 *)
(*                                                                         *)
(* JSON values are records [t, s, m, l]: t is the Python type, s the text  *)
(* of a string or number, m the (key, value) pairs of a dict in insertion  *)
(* order, l the items of a list.                                           *)
(***************************************************************************)
EXTENDS Integers, Sequences, FiniteSets, TLC

VARIABLES markdown, uri, context, vocab, content, user_contexts,
          remote_context_keys, remote_context, document, pc, err, accesses

vars == <<markdown, uri, context, vocab, content, user_contexts,
          remote_context_keys, remote_context, document, pc, err, accesses>>

\* ---------------------------------------------------------------- bounds
MaxLen == 2
MaxAccesses == 2

\* ----------------------------------------------------------- JSON values
JNone == [t |-> "none", s |-> "", m |-> <<>>, l |-> <<>>]
JStr(s) == [t |-> "str", s |-> s, m |-> <<>>, l |-> <<>>]
JNum(s) == [t |-> "num", s |-> s, m |-> <<>>, l |-> <<>>]
JMap(m) == [t |-> "map", s |-> "", m |-> m, l |-> <<>>]
JList(l) == [t |-> "list", s |-> "", m |-> <<>>, l |-> l]
KV(k, v) == [k |-> k, v |-> v]

\* bool(x)
Truthy(j) ==
    CASE j.t = "none" -> FALSE
      [] j.t = "str"  -> j.s # ""
      [] j.t = "num"  -> j.s # "0"
      [] j.t = "map"  -> j.m # <<>>
      [] j.t = "list" -> j.l # <<>>

\* dict operations on sequences of pairs (insertion ordered, unique keys)
DictKeys(d) == {d[i].k : i \in DOMAIN d}
DictHas(d, k) == \E i \in DOMAIN d : d[i].k = k
DictGet(d, k) == d[CHOOSE i \in DOMAIN d : d[i].k = k].v
DictPop(d, k) == SelectSeq(d, LAMBDA p : p.k # k)
DictSet(d, k, v) ==
    IF DictHas(d, k)
    THEN [i \in DOMAIN d |-> IF d[i].k = k THEN KV(k, v) ELSE d[i]]
    ELSE Append(d, KV(k, v))

RECURSIVE DictUpdate(_, _)
DictUpdate(d, e) ==
    IF e = <<>> THEN d
    ELSE DictUpdate(DictSet(d, Head(e).k, Head(e).v), Tail(e))

KeySeq(d) == [i \in DOMAIN d |-> d[i].k]

\* str.startswith(prefix)
StartsWith(s, prefix) ==
    Len(s) >= Len(prefix) /\ SubSeq(s, 1, Len(prefix)) = prefix

\* sub in s, for strings
StrContains(s, sub) ==
    \E i \in 1..(Len(s) - Len(sub) + 1) : SubSeq(s, i, i + Len(sub) - 1) = sub

\* ------------------------------------------------------ program constants
CANONICAL == "https://edwardanderson.github.io/articular/ns/v1/articular.json"

\* body of docs/ns/v1/articular.json
OntologyContext ==
    JMap(<<KV("_label", JStr("http://www.w3.org/2000/01/rdf-schema#label"))>>)

\* --------------------------------------------------------------- inputs
SchemaOrg == "https://schema.org/docs/jsonldcontext.json"
ExampleOrg == "https://example.org/ctx"
BirthPlaceDef == JMap(<<KV("@id", JStr("https://schema.org/birthPlace"))>>)
BookDef == JStr("https://schema.org/Book")

LocalEntries ==
    { JStr(SchemaOrg),
      JStr(ExampleOrg),
      JStr("https://example.org/@vocab"),
      JStr(""),
      JNone,
      JNum("5"),
      JMap(<<KV("birthPlace", BirthPlaceDef)>>),
      JMap(<<KV("Book", BookDef), KV("secret", JStr("user:secret"))>>),
      JMap(<<KV("secret", JStr("user:secret"))>>),
      JMap(<<KV("@vocab", JStr("https://schema.org/"))>>) }

RECURSIVE SeqsUpTo(_, _)
SeqsUpTo(S, n) ==
    IF n = 0 THEN {<<>>}
    ELSE LET shorter == SeqsUpTo(S, n - 1)
         IN  shorter \cup {Append(q, e) : q \in {r \in shorter : Len(r) = n - 1}, e \in S}

\* front matter of the markdown: the shape of its context and the entries
Markdowns ==
    {[shape |-> "list", entries |-> q, body |-> b] :
        q \in SeqsUpTo(LocalEntries, MaxLen),
        b \in { <<KV("_label", JStr("Alfred Hitchcock"))>>,
                <<KV("_label", JStr("Alfred Hitchcock")), KV("id", JStr("urn:hitchcock"))>>,
                <<KV("id", JStr("urn:hitchcock")), KV("_label", JStr("Alfred Hitchcock"))>> }}
    \cup
    {[shape |-> sh, entries |-> <<>>, body |-> <<KV("_label", JStr("Alfred Hitchcock"))>>] :
        sh \in {"none", "str", "absent"}}

Uris == {JNone, JStr("docs/alpha")}
Vocabs == {JNone, JStr("https://example.org/vocab/")}

CacheEntry(terms) == JMap(<<KV("@context", JMap(terms))>>)
Caches ==
    { JNone,
      JMap(<<>>),
      JMap(<<KV(SchemaOrg, CacheEntry(<<KV("birthPlace", BirthPlaceDef)>>)),
             KV(ExampleOrg, CacheEntry(<<KV("Book", BookDef)>>))>>) }

\* ------------------------------------------------- Template.transform
\* The content tree: `@context` holding the canonical ontology URI followed by
\* the front matter's context entries, then the content keys.
Template_transform(md) ==
    CASE md.shape = "list" ->
            <<KV("@context", JList(<<JStr(CANONICAL)>> \o md.entries))>> \o md.body
      [] md.shape = "none" -> <<KV("@context", JNone)>> \o md.body
      [] md.shape = "str" -> <<KV("@context", JStr(SchemaOrg))>> \o md.body
      [] md.shape = "absent" -> md.body

\* ------------------------------------------ Document.__init__, lines 86-90
\* [i for i in user_contexts if isinstance(i, str)], TypeError -> list()
RemoteContextKeysOf(uc) ==
    CASE uc.t = "list" ->
            LET strs == SelectSeq(uc.l, LAMBDA i : i.t = "str")
            IN  [n \in DOMAIN strs |-> strs[n].s]
      [] uc.t = "str" -> [n \in 1..Len(uc.s) |-> SubSeq(uc.s, n, n)]
      [] OTHER -> <<>>

\* ------------------------------------------ Document._deduplicate_context
\* Aggregate remote contexts.
RECURSIVE AggregateLoop(_, _, _)
AggregateLoop(keys, cache, acc) ==
    IF keys = <<>> THEN acc
    ELSE LET key == Head(keys)
         IN  IF DictHas(cache.m, key)
             THEN AggregateLoop(Tail(keys), cache,
                                DictUpdate(acc, DictGet(DictGet(cache.m, key).m, "@context").m))
             ELSE AggregateLoop(Tail(keys), cache, acc)

\* variant: every cache entry is merged, referenced or not
AggregateRemoteContexts_All(keys, cache) ==
    IF Truthy(cache) THEN AggregateLoop(KeySeq(cache.m), cache, <<>>) ELSE <<>>

AggregateRemoteContexts(keys, cache) ==
    IF Truthy(cache) THEN AggregateLoop(keys, cache, <<>>) ELSE <<>>

\* value.startswith('user:'); a value that is not a string raises, and the
\* exception is swallowed
IsUserDefined(value) == value.t = "str" /\ StartsWith(value.s, "user:")

\* body of `for key in dict(item)`
RemoveKey(item, key, remote) ==
    LET afterDup == IF DictHas(remote, key) THEN DictPop(item, key) ELSE item
    IN  IF DictHas(afterDup, key) /\ IsUserDefined(DictGet(afterDup, key))
        THEN DictPop(afterDup, key)
        ELSE afterDup

\* variant: the loop stops after the first key it removes
RECURSIVE RemoveKeysLoop_Break(_, _, _)
RemoveKeysLoop_Break(keys, item, remote) ==
    IF keys = <<>> THEN item
    ELSE LET next == RemoveKey(item, Head(keys), remote)
         IN  IF next # item THEN next ELSE RemoveKeysLoop_Break(Tail(keys), next, remote)

RECURSIVE RemoveKeysLoop(_, _, _)
RemoveKeysLoop(keys, item, remote) ==
    IF keys = <<>> THEN item
    ELSE RemoveKeysLoop(Tail(keys), RemoveKey(item, Head(keys), remote), remote)

\* Remove unwanted keys: `for item in user_context`
RemoveUnwantedKeys(uc, remote) ==
    CASE uc.t = "list" ->
            [v |-> JList([n \in DOMAIN uc.l |->
                            IF uc.l[n].t = "map"
                            THEN JMap(RemoveKeysLoop(KeySeq(uc.l[n].m), uc.l[n].m, remote))
                            ELSE uc.l[n]]),
             err |-> ""]
      [] uc.t = "str" -> [v |-> uc, err |-> ""]
      [] OTHER -> [v |-> uc, err |-> "TypeError"]

\* list.remove(item): drop the first element equal to item
RemoveFirst(lst, item) ==
    IF \E n \in DOMAIN lst : lst[n] = item
    THEN LET first == CHOOSE n \in DOMAIN lst :
                          lst[n] = item /\ \A k \in 1..(n - 1) : lst[k] # item
         IN  SubSeq(lst, 1, first - 1) \o SubSeq(lst, first + 1, Len(lst))
    ELSE lst

\* variant: `for item in user_context`, iterating the list being shrunk
RECURSIVE RemoveEmptyLive(_, _)
RemoveEmptyLive(n, lst) ==
    IF n > Len(lst) THEN lst
    ELSE IF ~Truthy(lst[n])
         THEN RemoveEmptyLive(n + 1, RemoveFirst(lst, lst[n]))
         ELSE RemoveEmptyLive(n + 1, lst)

RemoveEmptyLoop_Live(copy, lst) == RemoveEmptyLive(1, lst)

\* `for item in list(user_context): if not item: user_context.remove(item)`
RECURSIVE RemoveEmptyLoop(_, _)
RemoveEmptyLoop(copy, lst) ==
    IF copy = <<>> THEN lst
    ELSE IF ~Truthy(Head(copy))
         THEN RemoveEmptyLoop(Tail(copy), RemoveFirst(lst, Head(copy)))
         ELSE RemoveEmptyLoop(Tail(copy), lst)

\* Remove empty contexts.
RemoveEmptyContexts(uc) ==
    IF uc.t = "list" THEN JList(RemoveEmptyLoop(uc.l, uc.l)) ELSE uc

\* the whole of _deduplicate_context on a list
DeduplicateContext(uc, keys, cache) ==
    RemoveEmptyContexts(RemoveUnwantedKeys(uc, AggregateRemoteContexts(keys, cache)).v)

\* ------------------------------------------ Document.__init__, lines 95-111
\* variant: the fragment separator is left out
BaseOf_NoHash(u) == u

\* base = f'{uri}#'
BaseOf(u) == u \o "#"

\* variant: the fallback inserts the marker at the front of the list
SetBase_InsertFirst(ctx, base) ==
    CASE ctx.t = "list" ->
            IF ctx.l # <<>> /\ ctx.l[Len(ctx.l)].t = "map"
            THEN [v |-> JList([ctx.l EXCEPT ![Len(ctx.l)] =
                                  JMap(DictSet(ctx.l[Len(ctx.l)].m, "@base", JStr(base)))]),
                  err |-> ""]
            ELSE [v |-> JList(<<JMap(<<KV("@base", JStr(base))>>)>> \o ctx.l), err |-> ""]
      [] OTHER -> [v |-> ctx, err |-> "AttributeError"]

\* try: ctx[-1]['@base'] = base / except: ctx.append({'@base': base})
SetBase(ctx, base) ==
    CASE ctx.t = "list" ->
            IF ctx.l # <<>> /\ ctx.l[Len(ctx.l)].t = "map"
            THEN [v |-> JList([ctx.l EXCEPT ![Len(ctx.l)] =
                                  JMap(DictSet(ctx.l[Len(ctx.l)].m, "@base", JStr(base)))]),
                  err |-> ""]
            ELSE [v |-> JList(Append(ctx.l, JMap(<<KV("@base", JStr(base))>>))), err |-> ""]
      [] OTHER -> [v |-> ctx, err |-> "AttributeError"]

\* variant: the membership test is left out
VocabMissing_Always(x) ==
    CASE x.t \in {"map", "str", "list"} -> [v |-> TRUE, err |-> ""]
      [] OTHER -> [v |-> FALSE, err |-> "TypeError"]

\* '@vocab' not in x, raising TypeError where x supports no membership test
VocabMissing(x) ==
    CASE x.t = "map" -> [v |-> ~DictHas(x.m, "@vocab"), err |-> ""]
      [] x.t = "str" -> [v |-> ~StrContains(x.s, "@vocab"), err |-> ""]
      [] x.t = "list" -> [v |-> ~\E n \in DOMAIN x.l : x.l[n] = JStr("@vocab"), err |-> ""]
      [] OTHER -> [v |-> FALSE, err |-> "TypeError"]

\* variant: the vocab marker is always appended
SetVocabulary_Append(ctx, v) ==
    CASE ctx.t = "list" -> [v |-> JList(Append(ctx.l, JMap(<<KV("@vocab", v)>>))), err |-> ""]
      [] OTHER -> [v |-> ctx, err |-> "AttributeError"]

\* try: if '@vocab' not in ctx[-1]: ctx[-1]['@vocab'] = vocab
\* except: ctx.append({'@vocab': vocab})
SetVocabulary(ctx, v) ==
    CASE ctx.t = "list" ->
            LET appended == [v |-> JList(Append(ctx.l, JMap(<<KV("@vocab", v)>>))), err |-> ""]
            IN  IF ctx.l = <<>> THEN appended
                ELSE LET last == ctx.l[Len(ctx.l)]
                         missing == VocabMissing(last)
                     IN  IF missing.err # "" THEN appended
                         ELSE IF ~missing.v THEN [v |-> ctx, err |-> ""]
                         ELSE IF last.t = "map"
                              THEN [v |-> JList([ctx.l EXCEPT ![Len(ctx.l)] =
                                                    JMap(DictSet(last.m, "@vocab", v))]),
                                    err |-> ""]
                              ELSE appended
      [] OTHER -> [v |-> ctx, err |-> "AttributeError"]

\* variant: an overwritten key is removed and set again, moving it to the end
RECURSIVE UpdateDocument_Reinsert(_, _)
UpdateDocument_Reinsert(doc, c) ==
    IF c = <<>> THEN doc
    ELSE UpdateDocument_Reinsert(Append(DictPop(doc, Head(c).k), Head(c)), Tail(c))

\* self.document.update(content)
UpdateDocument(doc, c) == DictUpdate(doc, c)

\* ------------------------------------------------------ Document.framed
\* context = self.document['@context']; context[0] = ctx['@context']
\* (context is the document's own list, so the assignment lands in it)
ReplaceFirstContext(doc, first) ==
    LET ctx == DictGet(doc, "@context")
    IN  CASE ctx.t = "list" /\ ctx.l # <<>> ->
                [v |-> DictSet(doc, "@context", JList([ctx.l EXCEPT ![1] = first])), err |-> ""]
          [] ctx.t = "list" /\ ctx.l = <<>> -> [v |-> doc, err |-> "IndexError"]
          [] OTHER -> [v |-> doc, err |-> "TypeError"]

\* ---------------------------------------------------------------- state
Init ==
    /\ markdown \in Markdowns
    /\ uri \in Uris
    /\ context \in Caches
    /\ vocab \in Vocabs
    /\ content = <<>>
    /\ user_contexts = JNone
    /\ remote_context_keys = <<>>
    /\ remote_context = <<>>
    /\ document = <<>>
    /\ pc = "transform"
    /\ err = ""
    /\ accesses = 0

\* line 85: content = Template.transform(markdown)
Transform ==
    /\ pc = "transform"
    /\ content' = Template_transform(markdown)
    /\ pc' = "pop"
    /\ UNCHANGED <<markdown, uri, context, vocab, user_contexts, remote_context_keys,
                   remote_context, document, err, accesses>>

\* line 86: user_contexts = content.pop('@context')
PopContext ==
    /\ pc = "pop"
    /\ IF DictHas(content, "@context")
       THEN /\ user_contexts' = DictGet(content, "@context")
            /\ content' = DictPop(content, "@context")
            /\ pc' = "keys"
            /\ err' = err
       ELSE /\ pc' = "raised"
            /\ err' = "KeyError"
            /\ UNCHANGED <<user_contexts, content>>
    /\ UNCHANGED <<markdown, uri, context, vocab, remote_context_keys, remote_context,
                   document, accesses>>

\* lines 87-90
RemoteContextKeys ==
    /\ pc = "keys"
    /\ remote_context_keys' = RemoteContextKeysOf(user_contexts)
    /\ pc' = "aggregate"
    /\ UNCHANGED <<markdown, uri, context, vocab, content, user_contexts, remote_context,
                   document, err, accesses>>

\* lines 121-125
AggregateRemote ==
    /\ pc = "aggregate"
    /\ remote_context' = AggregateRemoteContexts(remote_context_keys, context)
    /\ pc' = "remove_keys"
    /\ UNCHANGED <<markdown, uri, context, vocab, content, user_contexts,
                   remote_context_keys, document, err, accesses>>

\* lines 128-140
RemoveKeys ==
    /\ pc = "remove_keys"
    /\ LET r == RemoveUnwantedKeys(user_contexts, remote_context)
       IN  /\ user_contexts' = r.v
           /\ err' = r.err
           /\ pc' = IF r.err = "" THEN "remove_empty" ELSE "raised"
    /\ UNCHANGED <<markdown, uri, context, vocab, content, remote_context_keys,
                   remote_context, document, accesses>>

\* lines 143-149
RemoveEmpty ==
    /\ pc = "remove_empty"
    /\ user_contexts' = RemoveEmptyContexts(user_contexts)
    /\ pc' = "new_document"
    /\ UNCHANGED <<markdown, uri, context, vocab, content, remote_context_keys,
                   remote_context, document, err, accesses>>

\* lines 92-94: self.document = {'@context': clean_context}
NewDocument ==
    /\ pc = "new_document"
    /\ document' = <<KV("@context", user_contexts)>>
    /\ pc' = "uri"
    /\ UNCHANGED <<markdown, uri, context, vocab, content, user_contexts,
                   remote_context_keys, remote_context, err, accesses>>

\* lines 95-101
SetUri ==
    /\ pc = "uri"
    /\ IF Truthy(uri)
       THEN LET withId == DictSet(document, "id", uri)
                r == SetBase(DictGet(withId, "@context"), BaseOf(uri.s))
            IN  /\ document' = DictSet(withId, "@context", r.v)
                /\ err' = r.err
                /\ pc' = IF r.err = "" THEN "vocab" ELSE "raised"
       ELSE /\ pc' = "vocab"
            /\ UNCHANGED <<document, err>>
    /\ UNCHANGED <<markdown, uri, context, vocab, content, user_contexts,
                   remote_context_keys, remote_context, accesses>>

\* lines 103-108
SetVocab ==
    /\ pc = "vocab"
    /\ IF Truthy(vocab)
       THEN LET r == SetVocabulary(DictGet(document, "@context"), vocab)
            IN  /\ document' = DictSet(document, "@context", r.v)
                /\ err' = r.err
                /\ pc' = IF r.err = "" THEN "update" ELSE "raised"
       ELSE /\ pc' = "update"
            /\ UNCHANGED <<document, err>>
    /\ UNCHANGED <<markdown, uri, context, vocab, content, user_contexts,
                   remote_context_keys, remote_context, accesses>>

\* line 111
Update ==
    /\ pc = "update"
    /\ document' = UpdateDocument(document, content)
    /\ pc' = "done"
    /\ UNCHANGED <<markdown, uri, context, vocab, content, user_contexts,
                   remote_context_keys, remote_context, err, accesses>>

\* lines 151-169: one access of the `framed` property.  jsonld.frame returns
\* a tree whose `@context` is either the list handed to it or a copy of it.
Framed ==
    /\ pc = "done"
    /\ accesses < MaxAccesses
    /\ accesses' = accesses + 1
    /\ LET r == ReplaceFirstContext(document, OntologyContext)
       IN  IF r.err # ""
           THEN /\ document' = r.v
                /\ err' = r.err
           ELSE IF ~DictHas(r.v, "id")
                THEN /\ document' = r.v
                     /\ err' = "KeyError"
                ELSE \E shared \in BOOLEAN :
                        /\ document' = IF shared
                                       THEN ReplaceFirstContext(r.v, JStr(CANONICAL)).v
                                       ELSE r.v
                        /\ err' = ""
    /\ UNCHANGED <<markdown, uri, context, vocab, content, user_contexts,
                   remote_context_keys, remote_context, pc>>

Next ==
    \/ Transform
    \/ PopContext
    \/ RemoteContextKeys
    \/ AggregateRemote
    \/ RemoveKeys
    \/ RemoveEmpty
    \/ NewDocument
    \/ SetUri
    \/ SetVocab
    \/ Update
    \/ Framed

Spec == Init /\ [][Next]_vars

\* ============================================================ properties
\* the `@context` the content tree held before construction touched it
OriginalContext == DictGet(Template_transform(markdown), "@context")
DocumentContext == DictGet(document, "@context")
Constructed == pc = "done" /\ accesses = 0
IsList == markdown.shape = "list"
LastOf(q) == q[Len(q)]
CarriesMarker(e) == e.t = "map" /\ (DictHas(e.m, "@base") \/ DictHas(e.m, "@vocab"))

DefinedByReferencedCache(k) ==
    /\ context.t = "map"
    /\ \E i \in DOMAIN context.m :
          /\ \E n \in DOMAIN OriginalContext.l : OriginalContext.l[n] = JStr(context.m[i].k)
          /\ DictHas(DictGet(context.m[i].v.m, "@context").m, k)

HasUserPrefix(v) == v.t = "str" /\ Len(v.s) >= 5 /\ SubSeq(v.s, 1, 5) = "user:"

C2_RemovedIff ==
    (pc = "remove_empty" /\ IsList) =>
        /\ Len(user_contexts.l) = Len(OriginalContext.l)
        /\ \A n \in DOMAIN OriginalContext.l :
              OriginalContext.l[n].t = "map" =>
                 /\ user_contexts.l[n].t = "map"
                 /\ DictKeys(user_contexts.l[n].m) \subseteq DictKeys(OriginalContext.l[n].m)
                 /\ \A k \in DictKeys(OriginalContext.l[n].m) :
                       (~DictHas(user_contexts.l[n].m, k)) <=>
                          (DefinedByReferencedCache(k)
                             \/ HasUserPrefix(DictGet(OriginalContext.l[n].m, k)))

\* a referenced cache entry removed birthPlace, and Book (defined only by the
\* unreferenced cache entry) was kept while its user: neighbour went
C2_Witness ==
    /\ pc = "remove_empty" /\ IsList /\ Truthy(context)
    /\ Len(OriginalContext.l) = 3
    /\ OriginalContext.l[2] = JStr(SchemaOrg)
    /\ user_contexts.l[2] = JStr(SchemaOrg)
    /\ \E n \in DOMAIN OriginalContext.l :
          /\ OriginalContext.l[n].t = "map"
          /\ DictHas(OriginalContext.l[n].m, "birthPlace")
          /\ user_contexts.l[n] = JMap(<<>>)

C2_WitnessKept ==
    /\ pc = "remove_empty" /\ IsList /\ Truthy(context)
    /\ \A n \in DOMAIN OriginalContext.l : OriginalContext.l[n] # JStr(ExampleOrg)
    /\ \E n \in DOMAIN OriginalContext.l :
          /\ OriginalContext.l[n].t = "map"
          /\ DictHas(OriginalContext.l[n].m, "secret")
          /\ user_contexts.l[n] = JMap(<<KV("Book", BookDef)>>)

\* C3 (as stated): the empty-removal step drops exactly the mapping entries
\* that are empty after key removal and keeps every other entry, in order.
IsEmptyMapping(e) == e.t = "map" /\ e.m = <<>>

C3_OnlyEmptyMappingsDropped ==
    [][(pc = "remove_empty" /\ IsList) =>
          /\ pc' = "new_document"
          /\ user_contexts'.l = SelectSeq(user_contexts.l, LAMBDA e : ~IsEmptyMapping(e))]_vars

\* C3 (amended): key removal leaves every entry that is not a mapping as it
\* was, the empty-removal step drops exactly the falsy entries (a mapping
\* without keys, an empty string, null, zero) and keeps the others in order,
\* and neither step raises on a list.
IsFalsy(e) ==
    \/ e.t = "none"
    \/ e.t = "str" /\ e.s = ""
    \/ e.t = "num" /\ e.s = "0"
    \/ e.t = "map" /\ e.m = <<>>
    \/ e.t = "list" /\ e.l = <<>>

C3_FalsyEntriesDropped ==
    [][/\ (pc = "remove_keys" /\ IsList) =>
             /\ pc' = "remove_empty"
             /\ err' = ""
             /\ Len(user_contexts'.l) = Len(user_contexts.l)
             /\ \A n \in DOMAIN user_contexts.l :
                   user_contexts.l[n].t # "map" => user_contexts'.l[n] = user_contexts.l[n]
       /\ (pc = "remove_empty" /\ IsList) =>
             /\ pc' = "new_document"
             /\ err' = ""
             /\ user_contexts'.l = SelectSeq(user_contexts.l, LAMBDA e : ~IsFalsy(e))]_vars

\* two neighbouring entries were dropped (a null and a mapping emptied by key
\* removal) and the canonical string was kept
C3_Witness ==
    /\ pc = "new_document" /\ IsList
    /\ Len(OriginalContext.l) = 3
    /\ OriginalContext.l[2] = JNone
    /\ OriginalContext.l[3].t = "map"
    /\ user_contexts.l = <<JStr(CANONICAL)>>

\* C4 (as stated): with a uri U the document's id is U and the last element
\* of `@context` is a mapping whose @base is U followed by "#".
LastHasBase ==
    /\ DocumentContext.t = "list"
    /\ DocumentContext.l # <<>>
    /\ LastOf(DocumentContext.l).t = "map"
    /\ DictHas(LastOf(DocumentContext.l).m, "@base")
    /\ DictGet(LastOf(DocumentContext.l).m, "@base") = JStr(uri.s \o "#")

C4_IdIsUri ==
    (Constructed /\ Truthy(uri)) =>
        /\ DictHas(document, "id")
        /\ DictGet(document, "id") = uri
        /\ LastHasBase

\* C4 (amended): with a non-empty uri U and a list `@context`, the last element
\* of `@context` is a mapping whose @base is U followed by "#", and the id is
\* U unless the content tree defines a top-level id, whose value then wins.
C4_IdIsUriUnlessContentId ==
    (Constructed /\ Truthy(uri)) =>
        /\ DictHas(document, "id")
        /\ DictGet(document, "id") =
              (IF DictHas(content, "id") THEN DictGet(content, "id") ELSE uri)
        /\ LastHasBase

C4_Witness ==
    /\ Constructed /\ Truthy(uri)
    /\ DictHas(content, "id")
    /\ DictGet(document, "id") = DictGet(content, "id")
    /\ DictGet(document, "id") # uri
    /\ LastHasBase

\* C5: with a uri and a vocab, and no mapping entry of the local context
\* carrying @base or @vocab, exactly one element of `@context` carries a marker
\* key; it is the last one and it holds both @base = uri + "#" and @vocab.
C5_OneTrailingMarker ==
    (/\ Constructed /\ IsList /\ Truthy(uri) /\ Truthy(vocab)
     /\ \A n \in DOMAIN OriginalContext.l : ~CarriesMarker(OriginalContext.l[n])) =>
        /\ Cardinality({n \in DOMAIN DocumentContext.l : CarriesMarker(DocumentContext.l[n])}) = 1
        /\ LastHasBase
        /\ DictHas(LastOf(DocumentContext.l).m, "@vocab")
        /\ DictGet(LastOf(DocumentContext.l).m, "@vocab") = vocab

\* the de-duplicated context ends in a mapping, which received both keys
C5_Witness ==
    /\ Constructed /\ IsList /\ Truthy(uri) /\ Truthy(vocab)
    /\ \A n \in DOMAIN OriginalContext.l : ~CarriesMarker(OriginalContext.l[n])
    /\ KeySeq(LastOf(DocumentContext.l).m) = <<"Book", "@base", "@vocab">>

C5_WitnessString ==
    /\ Constructed /\ IsList /\ Truthy(uri) /\ Truthy(vocab)
    /\ Len(DocumentContext.l) = 3
    /\ DocumentContext.l[2].t = "str"
    /\ KeySeq(LastOf(DocumentContext.l).m) = <<"@base", "@vocab">>

\* C6: de-duplicating the de-duplicated context against the same cache changes
\* nothing, with the remote context keys of the original or of the result.
C6_Idempotent ==
    (pc = "new_document" /\ IsList) =>
        /\ DeduplicateContext(user_contexts, remote_context_keys, context) = user_contexts
        /\ DeduplicateContext(user_contexts, RemoteContextKeysOf(user_contexts), context)
              = user_contexts

\* the first pass removed a key and dropped an entry
C6_Witness ==
    /\ pc = "new_document" /\ IsList /\ Truthy(context)
    /\ Len(user_contexts.l) < Len(OriginalContext.l)
    /\ \E n \in DOMAIN user_contexts.l : user_contexts.l[n] = JMap(<<KV("Book", BookDef)>>)

\* C7: a content tree whose `@context` is absent or not a list is constructed
\* without raising, into the document an empty local context would give.
EmptyContextDocument ==
    LET start == <<KV("@context", JList(<<JStr(CANONICAL)>>))>>
        withUri == IF Truthy(uri)
                   THEN DictSet(DictSet(start, "id", uri), "@context",
                                SetBase(DictGet(start, "@context"), BaseOf(uri.s)).v)
                   ELSE start
        withVocab == IF Truthy(vocab)
                     THEN DictSet(withUri, "@context",
                                  SetVocabulary(DictGet(withUri, "@context"), vocab).v)
                     ELSE withUri
    IN  UpdateDocument(withVocab, markdown.body)

C7_NonListDegrades ==
    ~IsList =>
        /\ pc # "raised"
        /\ Constructed => document = EmptyContextDocument

\* C8: an access of `framed`, successful or not, leaves the stored document
\* as it was.
C8_FramedKeepsDocument ==
    [][accesses' # accesses => document' = document]_vars

SetInPlace(q, k, v) == [q EXCEPT ![Len(q)] = JMap(DictSet(LastOf(q).m, k, v))]

HoldsVocab(e) ==
    \/ e.t = "map" /\ DictHas(e.m, "@vocab")
    \/ e.t = "str" /\ \E i \in 1..Len(e.s) : i + 5 <= Len(e.s) /\ SubSeq(e.s, i, i + 5) = "@vocab"

C10_WitnessAppended ==
    /\ pc = "update" /\ Truthy(vocab) /\ ~Truthy(uri)
    /\ DocumentContext.t = "list"
    /\ Len(DocumentContext.l) = 3
    /\ DocumentContext.l[2] = JNum("5")
    /\ DocumentContext.l[3] = JMap(<<KV("@vocab", vocab)>>)

====
